---- MODULE Spec2Model ----
(***************************************************************************)
(* Model of the todo service of src/todo/src/main.rs: a Rocket application *)
(* whose five routes share one Mutex<HashMap<ID, Todo>>, plus the          *)
(* FromFormValue parser of Priority.                                       *)
(*                                                                         *)
(* Each request is served by a worker.  A worker receives a request, waits *)
(* for the mutex, runs the handler's map operation while holding it and    *)
(* releases it when the handler returns (the MutexGuard is dropped at the  *)
(* end of the function on every path).  No handler can panic while holding *)
(* the guard, so the mutex is never poisoned and lock().unwrap() /         *)
(* lock().expect() never fail; poisoning is therefore not a state.         *)
(***************************************************************************)
EXTENDS Integers, Sequences, FiniteSets, TLC

\* ------------------------------------------------------------------ bounds
MaxId == 2
NumWorkers == 2
MaxLen == 2

\* ------------------------------------------------------- program constants
PriorityMin == 1
PriorityMax == 5
StatusOk == 200
StatusBadRequest == 400
StatusNotFound == 404

\* ------------------------------------------------------------- input sets
IDs == 1..MaxId
Workers == 1..NumWorkers
\* Titles the tests post and put.
Titles == {"write tests", "write tests updated"}
\* A JSON body's priority is any usize: the largest valid one and the first
\* invalid one are the two cases the handlers could tell apart.
JsonPriorities == {PriorityMax, PriorityMax + 1}

\* struct Todo { id, priority, title }
Todo(id, priority, title) == [id |-> id, priority |-> priority, title |-> title]
Todos == {Todo(i, p, t) : i \in IDs, p \in JsonPriorities, t \in Titles}

\* A request body as sent: a JSON object with the three fields, or a body
\* that does not deserialize (the empty body of tests::bad_get_put).
JsonBody(t) == [wellformed |-> TRUE, id |-> t.id, priority |-> t.priority, title |-> t.title]
EmptyBody == [wellformed |-> FALSE, id |-> 0, priority |-> 0, title |-> ""]

\* Json<Todo> data guard: derive(Deserialize) of Todo and of Priority(usize).
\* Priority deserializes as a plain usize: from_form_value is not involved.
FromJson(body) ==
  IF body.wellformed
    THEN <<Todo(body.id, body.priority, body.title)>>
    ELSE <<>>

Request(op, id, body) == [op |-> op, id |-> id, body |-> body]
NoReq == Request("none", 0, EmptyBody)

\* The requests over the keys Ids with the JSON objects Objs.
Requests(Ids, Objs) ==
  {Request("index", 0, EmptyBody)}
    \cup {Request("get_single_todo", i, EmptyBody) : i \in Ids}
    \cup {Request("delete_todo", i, EmptyBody) : i \in Ids}
    \cup {Request("add_todo", 0, b) : b \in {JsonBody(t) : t \in Objs} \cup {EmptyBody}}
    \cup {Request("update_todo", i, b) : i \in Ids, b \in {JsonBody(t) : t \in Objs} \cup {EmptyBody}}

\* ------------------------------------------------------------- responses
Response(status, kind, items) == [status |-> status, kind |-> kind, items |-> items]
NoResp == Response(0, "none", <<>>)
\* json!({ "status": "ok" })
status_ok == Response(StatusOk, "status_ok", <<>>)
\* #[catch(404)] not_found: {"status":"error","reason":"Resource was not found."}
not_found_as_ok == Response(StatusOk, "status_ok", <<>>)
not_found == Response(StatusNotFound, "Resource was not found.", <<>>)
\* A body the Json data guard rejects: the handler is not called.
bad_request == Response(StatusBadRequest, "bad_request", <<>>)

\* ------------------------------------------------------ HashMap<ID, Todo>
NoTodo == Todo(0, 0, "")
EmptyMap == [k \in {} |-> NoTodo]
contains_key(m, k) == k \in DOMAIN m
MapInsert(m, k, v) == [x \in DOMAIN m \cup {k} |-> IF x = k THEN v ELSE m[x]]
MapRemove(m, k) == [x \in DOMAIN m \ {k} |-> m[x]]
\* Option<&Todo> as a sequence of length 0 or 1
MapGet(m, k) == IF k \in DOMAIN m THEN <<m[k]>> ELSE <<>>

\* The orders in which iterating a HashMap may visit the keys S.
RECURSIVE Orders(_)
Orders(S) ==
  IF S = {} THEN {<<>>}
  ELSE UNION {{<<k>> \o rest : rest \in Orders(S \ {k})} : k \in S}

VARIABLES
  todos,        \* the managed Mutex<HashMap<ID, Todo>>: the map
  mutex,        \* the mutex: Free or the worker holding the guard
  pc,           \* pc[w]: where worker w is in serving its request
  req,          \* req[w]: the request worker w serves
  resp,         \* resp[w]: the response worker w produced
  before,       \* history: the map when w took the mutex
  last,         \* history: per key, the last mutation that reached the map
  serial,       \* history: the map after the requests so far, each applied whole, in lock order
  serialBefore, \* history: serial when w took the mutex
  form_value,   \* the raw form value given to Priority::from_form_value
  parsed        \* its result

vars == <<todos, mutex, pc, req, resp, before, last, serial, serialBefore, form_value, parsed>>
storeVars == <<todos, mutex, pc, req, resp, before, last, serial, serialBefore>>
parseVars == <<form_value, parsed>>

Free == 0

\* The history entry of a key: the kind of the last mutation and its record.
Last(op, todo) == [op |-> op, todo |-> todo]

\* rocket(): .manage(Mutex::new(HashMap::<ID, Todo>::new())); all workers idle.
InitStore ==
  /\ todos = EmptyMap
  /\ mutex = Free
  /\ pc = [w \in Workers |-> "idle"]
  /\ req = [w \in Workers |-> NoReq]
  /\ resp = [w \in Workers |-> NoResp]
  /\ before = [w \in Workers |-> EmptyMap]
  /\ last = [k \in IDs |-> Last("none", NoTodo)]
  /\ serial = EmptyMap
  /\ serialBefore = [w \in Workers |-> EmptyMap]

Init ==
  /\ InitStore
  /\ form_value = <<>>
  /\ parsed = <<>>

\* ------------------------------------------------------------ dispatching
\* Whether Rocket calls the handler: a route with data = "<todo>" is called
\* only when the body deserializes.
Accepted(r) == r.op \in {"add_todo", "update_todo"} => FromJson(r.body) # <<>>

\* A request arrives at an idle worker and its guards succeed: the handler
\* starts and calls todos.lock().
Receive(w, Reqs) ==
  /\ pc[w] = "idle"
  /\ \E r \in Reqs :
       /\ Accepted(r)
       /\ req' = [req EXCEPT ![w] = r]
  /\ pc' = [pc EXCEPT ![w] = "lock"]
  /\ UNCHANGED <<todos, mutex, resp, before, last, serial, serialBefore, parseVars>>

\* A POST or PUT whose body does not deserialize: the data guard fails and
\* the handler is never called (tests::bad_get_put, "without a proper body").
BadRequest(w, Reqs) ==
  /\ pc[w] = "idle"
  /\ \E r \in Reqs :
       /\ ~Accepted(r)
       /\ req' = [req EXCEPT ![w] = r]
  /\ resp' = [resp EXCEPT ![w] = bad_request]
  /\ before' = [before EXCEPT ![w] = todos]
  /\ serialBefore' = [serialBefore EXCEPT ![w] = serial]
  /\ pc' = [pc EXCEPT ![w] = "done"]
  /\ UNCHANGED <<todos, mutex, last, serial, parseVars>>

\* The todo a handler with data = "<todo>" received (todo.0).
TodoOf(r) == FromJson(r.body)[1]

\* ------------------------------------------------ the handlers, run whole
\* The map a request leaves when it runs alone on the map m.
ApplyStore(r, m) ==
  CASE r.op = "add_todo" -> MapInsert(m, TodoOf(r).id, TodoOf(r))
    [] r.op = "delete_todo" -> MapRemove(m, r.id)
    [] r.op = "update_todo" ->
         IF contains_key(m, r.id) THEN MapInsert(m, r.id, TodoOf(r)) ELSE m
    [] OTHER -> m

\* ------------------------------------------------------------- the mutex
\* Mutex::lock returns once no other guard is alive.
LockAlways(m) == TRUE
LockAvailable(m) == m = Free

\* todos.lock(): the first statement of every handler.
Lock(w) ==
  /\ pc[w] = "lock"
  /\ LockAvailable(mutex)
  /\ mutex' = w
  /\ pc' = [pc EXCEPT ![w] = "body"]
  /\ before' = [before EXCEPT ![w] = todos]
  /\ serialBefore' = [serialBefore EXCEPT ![w] = serial]
  /\ serial' = ApplyStore(req[w], serial)
  /\ UNCHANGED <<todos, req, resp, last, parseVars>>

\* The guard is dropped when the handler returns, on every path.
Leaked(w) == w
Released(w) == Free

Return(w, r) ==
  /\ resp' = [resp EXCEPT ![w] = r]
  /\ mutex' = Released(w)
  /\ pc' = [pc EXCEPT ![w] = "done"]
  /\ UNCHANGED <<req, before, serial, serialBefore, parseVars>>

\* ------------------------------------------------------------ GET /
\* for (_, v) in todos_map { data.push(v) }, visiting the keys in order.
IndexDropsOne(m, order) == [i \in 1..(Len(order) - 1) |-> m[order[i]]]
IndexData(m, order) == [i \in 1..Len(order) |-> m[order[i]]]

index(w) ==
  /\ pc[w] = "body"
  /\ req[w].op = "index"
  /\ \E order \in Orders(DOMAIN todos) :
       Return(w, Response(StatusOk, "array", IndexData(todos, order)))
  /\ UNCHANGED <<todos, last>>

\* ------------------------------------------------------------ GET /<id>
\* hashmap.get(&id).map(|content| Json(Todo { .. })): None goes to the
\* 404 catcher, Some(content) is answered with a copy of its three fields.
GetDefaultPriority(found) ==
  IF found = <<>> THEN not_found
  ELSE Response(StatusOk, "todo", <<Todo(found[1].id, PriorityMin, found[1].title)>>)
GetResponse(found) ==
  IF found = <<>> THEN not_found
  ELSE Response(StatusOk, "todo", <<Todo(found[1].id, found[1].priority, found[1].title)>>)

get_single_todo(w) ==
  /\ pc[w] = "body"
  /\ req[w].op = "get_single_todo"
  /\ Return(w, GetResponse(MapGet(todos, req[w].id)))
  /\ UNCHANGED <<todos, last>>

\* ------------------------------------------------------------ POST /
\* hashmap.insert(todo.0.id, todo.0)
AddStore(m, todo) == MapInsert(m, todo.id, todo)

add_todo(w) ==
  /\ pc[w] = "body"
  /\ req[w].op = "add_todo"
  /\ todos' = AddStore(todos, TodoOf(req[w]))
  /\ last' = [last EXCEPT ![TodoOf(req[w]).id] =
                Last(IF contains_key(todos, TodoOf(req[w]).id) THEN "add_replace" ELSE "add_todo",
                     TodoOf(req[w]))]
  /\ Return(w, status_ok)

\* ------------------------------------------------------------ DELETE /<id>
\* hashmap.remove(&id)
DeleteKeeps(m, id) == m
DeleteStore(m, id) == MapRemove(m, id)

delete_todo(w) ==
  /\ pc[w] = "body"
  /\ req[w].op = "delete_todo"
  /\ todos' = DeleteStore(todos, req[w].id)
  /\ last' = [last EXCEPT ![req[w].id] =
                IF @.op \in {"delete_todo", "delete_again"}
                  THEN Last("delete_again", NoTodo)
                  ELSE Last("delete_todo", NoTodo)]
  /\ Return(w, status_ok)

\* ------------------------------------------------------------ PUT /<id>
\* if hashmap.contains_key(&id) { hashmap.insert(id, todo.0); Some(ok) } else { None }
UpdateByBodyId(m, id, todo) == MapInsert(m, todo.id, todo)
UpdateStore(m, id, todo) == MapInsert(m, id, todo)

\* The contains_key test: None (the 404 catcher) when the key is absent.
update_todo_check(w) ==
  /\ pc[w] = "body"
  /\ req[w].op = "update_todo"
  /\ IF contains_key(todos, req[w].id)
       THEN /\ pc' = [pc EXCEPT ![w] = "update_insert"]
            /\ UNCHANGED <<mutex, resp, req, before, serial, serialBefore, parseVars>>
       ELSE Return(w, not_found)
  /\ UNCHANGED <<todos, last>>

\* The insert under the path's id, then Some(json!({ "status": "ok" })).
update_todo_insert(w) ==
  /\ pc[w] = "update_insert"
  /\ todos' = UpdateStore(todos, req[w].id, TodoOf(req[w]))
  /\ last' = [last EXCEPT ![req[w].id] = Last("update_todo", TodoOf(req[w]))]
  /\ Return(w, status_ok)

\* The response is sent and the worker takes the next request.
Reply(w) ==
  /\ pc[w] = "done"
  /\ pc' = [pc EXCEPT ![w] = "idle"]
  /\ req' = [req EXCEPT ![w] = NoReq]
  /\ resp' = [resp EXCEPT ![w] = NoResp]
  /\ before' = [before EXCEPT ![w] = EmptyMap]
  /\ serialBefore' = [serialBefore EXCEPT ![w] = EmptyMap]
  /\ UNCHANGED <<todos, mutex, last, serial, parseVars>>

\* ------------------------------------------------------- specifications
\* One client, one request at a time (the tests' Client): requests over all
\* keys and all JSON objects.
Client == CHOOSE w \in Workers : \A v \in Workers : w <= v

Next ==
  \/ Receive(Client, Requests(IDs, Todos))
  \/ BadRequest(Client, Requests(IDs, Todos))
  \/ Lock(Client)
  \/ index(Client)
  \/ get_single_todo(Client)
  \/ add_todo(Client)
  \/ delete_todo(Client)
  \/ update_todo_check(Client)
  \/ update_todo_insert(Client)
  \/ Reply(Client)

Spec == Init /\ [][Next]_vars

\* Concurrent clients: every worker serves requests, all on one key, with
\* the two titles as the bodies of Create and Update.
ConcIds == {MaxId}
ConcTodos == {Todo(i, PriorityMax, t) : i \in ConcIds, t \in Titles}

Serve(w) ==
  \/ index(w)
  \/ get_single_todo(w)
  \/ add_todo(w)
  \/ delete_todo(w)
  \/ update_todo_check(w)
  \/ update_todo_insert(w)
  \/ Reply(w)

NextConc ==
  \E w \in Workers :
    \/ Receive(w, Requests(ConcIds, ConcTodos))
    \/ BadRequest(w, Requests(ConcIds, ConcTodos))
    \/ Lock(w)
    \/ Serve(w)

SpecConc == Init /\ [][NextConc]_vars

\* Fair scheduling: a worker that can run its handler does, and a worker
\* waiting in lock() gets the mutex if it is free again and again.
Fairness == \A w \in Workers : WF_vars(Serve(w)) /\ SF_vars(Lock(w))

\* For progress the records' contents play no part: one JSON object.
FairTodos == {Todo(i, PriorityMax, "write tests") : i \in ConcIds}

NextFair ==
  \E w \in Workers :
    \/ Receive(w, Requests(ConcIds, FairTodos))
    \/ BadRequest(w, Requests(ConcIds, FairTodos))
    \/ Lock(w)
    \/ Serve(w)

SpecFair == Init /\ [][NextFair]_vars /\ Fairness

\* ------------------------------------------- Priority::from_form_value
\* A form value is a string, here a sequence of characters.
Digits == <<"0", "1", "2", "3", "4", "5", "6", "7", "8", "9">>
Chars == {Digits[i] : i \in 1..Len(Digits)} \cup {"+", "-", "a", " "}
RECURSIVE Strings(_)
Strings(n) ==
  IF n = 0 THEN {<<>>}
  ELSE Strings(n - 1) \cup {Append(s, c) : s \in {t \in Strings(n - 1) : Len(t) = n - 1}, c \in Chars}
FormValues == Strings(MaxLen)

\* char::to_digit(10): the digit's value, or -1 for any other character.
ToDigit(c) ==
  IF \E i \in 1..Len(Digits) : Digits[i] = c
    THEN (CHOOSE i \in 1..Len(Digits) : Digits[i] = c) - 1
    ELSE -1

\* The value of a sequence of decimal digits, most significant first.
RECURSIVE Accumulate(_, _)
Accumulate(ds, acc) ==
  IF ds = <<>> THEN acc
  ELSE Accumulate(Tail(ds), acc * Len(Digits) + ToDigit(Head(ds)))

\* str::parse::<usize>(): Err on the empty string, on a lone sign and on any
\* non-digit; one leading "+" is accepted, a leading "-" is not a digit of
\* an unsigned type.  (With at most MaxLen characters the value cannot
\* overflow usize.)  The result is <<n>> for Ok(n) and <<>> for Err.
ParseUsize(s) ==
  IF s = <<>> THEN <<>>
  ELSE IF Len(s) = 1 /\ s[1] \in {"+", "-"} THEN <<>>
  ELSE LET ds == IF s[1] = "+" THEN Tail(s) ELSE s
       IN IF \E i \in 1..Len(ds) : ToDigit(ds[i]) < 0
            THEN <<>>
            ELSE <<Accumulate(ds, 0)>>

\* Ok(data) if data >= 1 && data <= 5
InRangeFromZero(data) == data >= 0 /\ data <= PriorityMax
InRange(data) == data >= PriorityMin /\ data <= PriorityMax

\* Result<Priority, &RawStr>
Ok(data) == [ok |-> TRUE, priority |-> data, err |-> <<>>]
Err(raw) == [ok |-> FALSE, priority |-> 0, err |-> raw]

from_form_value(raw) ==
  LET r == ParseUsize(raw)
  IN IF r # <<>> /\ InRange(r[1]) THEN Ok(r[1]) ELSE Err(raw)

\* The only action of the parser's specification: parse the given value.
ParsePriority ==
  /\ parsed = <<>>
  /\ parsed' = <<from_form_value(form_value)>>
  /\ UNCHANGED <<form_value, storeVars>>

InitParse ==
  /\ InitStore
  /\ form_value \in FormValues
  /\ parsed = <<>>

NextParse == ParsePriority

SpecParse == InitParse /\ [][NextParse]_vars

\* ================================================================ claims
\* Worker w has answered a request of kind op that reached its handler.
Answered(w, op) == pc[w] = "done" /\ req[w].op = op /\ Accepted(req[w])

\* How often the record t occurs in the sequence s, and among the values of m.
Occurrences(s, t) == Cardinality({i \in 1..Len(s) : s[i] = t})
KeysHolding(m, t) == Cardinality({k \in DOMAIN m : m[k] = t})

\* C1: round trip. When the last mutation of key id was a Create whose body
\* todo has todo.id = id (inserting a new key or overwriting one), GetOne(id)
\* answers 200 with a record equal to todo in id, priority and title.
C1_RoundTrip ==
  \A w \in Workers :
    (Answered(w, "get_single_todo") /\ last[req[w].id].op \in {"add_todo", "add_replace"}) =>
      /\ last[req[w].id].todo.id = req[w].id
      /\ resp[w].status = StatusOk
      /\ resp[w].items = <<last[req[w].id].todo>>

\* A GetOne answered after a Create that overwrote the key.
C1_Witness ==
  \E w \in Workers :
    /\ Answered(w, "get_single_todo")
    /\ last[req[w].id].op = "add_replace"
    /\ resp[w].status = StatusOk

\* C2: Update(id, todo) is a conditional full replacement. When id was a key,
\* it answers 200 status ok, the record at id is exactly the body and every
\* other key keeps its record; when id was not a key it answers 404 and the
\* store is as it was (nothing appears at id nor at the body's id).
C2_UpdateContract ==
  \A w \in Workers :
    Answered(w, "update_todo") =>
      IF req[w].id \in DOMAIN before[w]
        THEN /\ resp[w] = Response(StatusOk, "status_ok", <<>>)
             /\ DOMAIN todos = DOMAIN before[w]
             /\ todos[req[w].id] = TodoOf(req[w])
             /\ \A k \in DOMAIN before[w] \ {req[w].id} : todos[k] = before[w][k]
        ELSE /\ resp[w].status = StatusNotFound
             /\ todos = before[w]

\* An Update of an absent key, with a body naming a different id, answered
\* on a store that holds another record.
C2_Witness ==
  \E w \in Workers :
    /\ Answered(w, "update_todo")
    /\ req[w].id \notin DOMAIN before[w]
    /\ TodoOf(req[w]).id # req[w].id
    /\ before[w] # EmptyMap
    /\ resp[w].status = StatusNotFound

\* C3: every stored Todo has a priority in [1,5].
C3_PriorityInRange ==
  \A k \in DOMAIN todos : todos[k].priority \in PriorityMin..PriorityMax

\* C4: Delete(id) always answers 200 status ok; afterwards id is absent (a
\* GetOne(id) would answer 404) and every other entry is unchanged; a second
\* Delete(id) answers the same and leaves the store as the first left it.
C4_DeleteContract ==
  \A w \in Workers :
    Answered(w, "delete_todo") =>
      /\ resp[w] = Response(StatusOk, "status_ok", <<>>)
      /\ req[w].id \notin DOMAIN todos
      /\ DOMAIN todos = DOMAIN before[w] \ {req[w].id}
      /\ \A k \in DOMAIN todos : todos[k] = before[w][k]
      /\ GetResponse(MapGet(todos, req[w].id)).status = StatusNotFound
      /\ last[req[w].id].op = "delete_again" => todos = before[w]

\* A second Delete of the same key answered, with other records in the store.
C4_Witness ==
  \E w \in Workers :
    /\ Answered(w, "delete_todo")
    /\ last[req[w].id].op = "delete_again"
    /\ todos # EmptyMap

\* C5: List never fails and returns exactly the records stored, one per key:
\* the empty sequence on an empty (fresh) store, and as many entries as
\* there are keys inserted and not deleted since.
C5_ListContract ==
  \A w \in Workers :
    Answered(w, "index") =>
      /\ resp[w].status = StatusOk
      /\ resp[w].kind = "array"
      /\ Len(resp[w].items) = Cardinality(DOMAIN before[w])
      /\ \A i \in 1..Len(resp[w].items) :
           Occurrences(resp[w].items, resp[w].items[i]) = KeysHolding(before[w], resp[w].items[i])
      /\ \A k \in DOMAIN before[w] : \E i \in 1..Len(resp[w].items) : resp[w].items[i] = before[w][k]
      /\ before[w] = EmptyMap => resp[w].items = <<>>
      /\ Len(resp[w].items) =
           Cardinality({k \in IDs : last[k].op \in {"add_todo", "add_replace", "update_todo"}})

\* A List answered with the records of every key of the model.
C5_Witness ==
  \E w \in Workers :
    /\ Answered(w, "index")
    /\ Len(resp[w].items) = MaxId

\* C6: GetOne of an absent key answers 404 with the uniform error body, and
\* neither GetOne nor List changes the store.
C6_ReadsContract ==
  \A w \in Workers :
    /\ (Answered(w, "get_single_todo") /\ req[w].id \notin DOMAIN before[w]) =>
         resp[w] = Response(StatusNotFound, "Resource was not found.", <<>>)
    /\ (Answered(w, "get_single_todo") \/ Answered(w, "index")) => todos = before[w]

\* A GetOne of an absent key answered on a store that holds another record.
C6_Witness ==
  \E w \in Workers :
    /\ Answered(w, "get_single_todo")
    /\ req[w].id \notin DOMAIN before[w]
    /\ before[w] # EmptyMap

\* The text s denotes the integer n of 1..9 in decimal: the digit of n,
\* after any number of zeros, after at most one plus sign.
Denotes(s, n) ==
  /\ Len(s) >= 1
  /\ s[Len(s)] = Digits[n + 1]
  /\ \A i \in 1..(Len(s) - 1) : s[i] = "0" \/ (i = 1 /\ s[i] = "+")

\* C7: parsing a form value succeeds exactly when the text is a non-negative
\* integer n with 1 <= n <= 5, and yields Priority(n); 0, 6, -1, larger
\* integers and non-numeric text fail, the error being the raw input.
C7_ParseContract ==
  parsed # <<>> =>
    /\ parsed[1].ok <=> \E n \in PriorityMin..PriorityMax : Denotes(form_value, n)
    /\ parsed[1].ok => Denotes(form_value, parsed[1].priority)
    /\ ~parsed[1].ok => parsed[1].err = form_value
    /\ form_value \in {<<"0">>, <<"6">>, <<"-", "1">>, <<"a">>, <<>>, <<"1", "0">>} => ~parsed[1].ok
    /\ \A n \in PriorityMin..PriorityMax : form_value = <<Digits[n + 1]>> => parsed[1] = Ok(n)

\* A value of more than one character parsed to a Priority.
C7_Witness ==
  /\ parsed # <<>>
  /\ parsed[1].ok
  /\ Len(form_value) > 1

\* The workers inside their store-access section (holding the guard).
InSection == {w \in Workers : pc[w] \in {"body", "update_insert"}}

\* The responses a request can get when its handler runs alone on the map m.
SeqResponses(r, m) ==
  CASE r.op = "index" ->
         {Response(StatusOk, "array", [i \in 1..Len(o) |-> m[o[i]]]) : o \in Orders(DOMAIN m)}
    [] r.op = "get_single_todo" ->
         {IF r.id \in DOMAIN m THEN Response(StatusOk, "todo", <<m[r.id]>>) ELSE not_found}
    [] r.op = "update_todo" ->
         {IF r.id \in DOMAIN m THEN status_ok ELSE not_found}
    [] OTHER -> {status_ok}

\* C8: at most one handler is inside its store-access section at any instant,
\* and the execution equals the sequential one in lock order: a handler in
\* its section sees the map its predecessors left (also between Update's
\* contains_key and its insert), every response is the one the request gets
\* run alone on that map, and with no handler in its section the map is the
\* one the requests leave applied whole, one after the other.
C8_Serialized ==
  /\ Cardinality(InSection) <= 1
  /\ \A w \in InSection : todos = serialBefore[w]
  /\ InSection = {} => todos = serial
  /\ \A w \in Workers :
       (pc[w] = "done" /\ Accepted(req[w])) => resp[w] \in SeqResponses(req[w], serialBefore[w])

\* An Update between its contains_key and its insert while another worker
\* waits in lock() with a Delete of the same key.
C8_Witness ==
  \E w, v \in Workers :
    /\ pc[w] = "update_insert"
    /\ pc[v] = "lock"
    /\ req[v].op = "delete_todo"
    /\ req[v].id = req[w].id

\* The mutex is held exactly by the worker inside its section.
LockDiscipline ==
  /\ mutex = Free <=> InSection = {}
  /\ \A w \in Workers : mutex = w <=> w \in InSection

\* Some worker can take a step.
CanStep ==
  \E w \in Workers : pc[w] # "lock" \/ mutex = Free

C10_KeyIsId ==
  \A k \in DOMAIN todos : todos[k].id = k
====
